---------------------------- MODULE Spec2Model ----------------------------
(***************************************************************************)
(* A model of the keygen layout search: the layout model and its position  *)
(* map (layout.rs), the layout permutation generator (layout.rs) and the   *)
(* two search drivers with their best-layouts list (simulator.rs).         *)
(*                                                                         *)
(* The keyboard is scaled down: the source has 50 positions of which 49    *)
(* are swappable (position 11 is skipped by LAYOUT_MASK_SWAP_OFFSETS); the *)
(* model has NumKeys positions of which all but MaskedPos are swappable.   *)
(* The per-position topology tables are the first NumKeys entries of the   *)
(* source tables.                                                          *)
(***************************************************************************)
EXTENDS Integers, Sequences, FiniteSets, TLC

(***************************************************************************)
(* Bounds of the model.                                                    *)
(***************************************************************************)
\* number of physical positions of the scaled keyboard (source: 50)
NumKeys == 5
\* the position the swap mask leaves out (source: 11)
MaskedPos == 2
\* largest swap depth a generator is created with
MaxDepth == 3
\* largest number of swaps applied to one layout in a row
MaxSwaps == 2
\* largest top_layouts a search is run with
MaxTop == 2
\* largest scaled penalty of a layout (penalties are 0 .. MaxPenalty)
MaxPenalty == 1
\* largest number of iterations of the simulation range
MaxIter == 2
\* largest number of characters of a corpus
MaxText == 5
\* largest number of characters of the corpus of a search over candidates
MaxCorpus == 3
\* largest count of a substring in a quartad table that is scored
MaxCount == 2
\* largest number of characters of a layout text
MaxFile == 12

(***************************************************************************)
(* Characters are their code points.                                       *)
(***************************************************************************)
\* '\0', the null sentinel of an unassigned position
NUL == 0
\* fill_position_map and get_key_position only handle c < (128 as char)
ASCII_LIMIT == 128

Pos == 0 .. (NumKeys - 1)

\* static LAYOUT_MASK_NUM_SWAPPABLE: usize (all positions but the masked one)
LAYOUT_MASK_NUM_SWAPPABLE == NumKeys - 1

\* static LAYOUT_MASK_SWAP_OFFSETS: 0 below the masked position, 1 from it on
LAYOUT_MASK_SWAP_OFFSETS ==
    [i \in 0 .. (LAYOUT_MASK_NUM_SWAPPABLE - 1) |-> IF i < MaskedPos THEN 0 ELSE 1]

\* the source's topology tables, indexed by position + 1; the scaled
\* keyboard reads their first NumKeys entries
KEY_FINGERS ==
    << "Pinky", "Pinky", "Ring", "Middle", "Index", "Index",
       "Index", "Index", "Middle", "Ring", "Pinky", "Pinky",
       "Pinky", "Pinky", "Ring", "Middle", "Index", "Index",
       "Index", "Index", "Middle", "Ring", "Pinky", "Pinky",
       "Pinky", "Pinky", "Ring", "Middle", "Index", "Index",
       "Index", "Index", "Middle", "Ring", "Pinky", "Pinky",
       "Thumb", "Thumb", "Thumb", "Thumb", "Thumb", "Thumb",
       "Thumb", "Thumb", "Thumb", "Thumb", "Thumb", "Thumb",
       "Thumb", "Thumb" >>
KEY_HANDS ==
    << "Left", "Left", "Left", "Left", "Left", "Left",
       "Right", "Right", "Right", "Right", "Right", "Right",
       "Left", "Left", "Left", "Left", "Left", "Left",
       "Right", "Right", "Right", "Right", "Right", "Right",
       "Left", "Left", "Left", "Left", "Left", "Left",
       "Right", "Right", "Right", "Right", "Right", "Right",
       "Left", "Left", "Left", "Left", "Left", "Right",
       "Right", "Right", "Right", "Right", "Left", "Left",
       "Right", "Right" >>
KEY_ROWS ==
    << "Top", "Top", "Top", "Top", "Top", "Top",
       "Top", "Top", "Top", "Top", "Top", "Top",
       "Home", "Home", "Home", "Home", "Home", "Home",
       "Home", "Home", "Home", "Home", "Home", "Home",
       "Bottom", "Bottom", "Bottom", "Bottom", "Bottom", "Bottom",
       "Bottom", "Bottom", "Bottom", "Bottom", "Bottom", "Bottom",
       "ThumbHome", "ThumbHome", "ThumbHome", "ThumbHome", "ThumbHome", "ThumbHome",
       "ThumbHome", "ThumbHome", "ThumbHome", "ThumbHome", "ThumbTop", "ThumbTop",
       "ThumbTop", "ThumbTop" >>
KEY_CENTER_COLUMN ==
    << FALSE, FALSE, FALSE, FALSE, FALSE, TRUE,
       TRUE, FALSE, FALSE, FALSE, FALSE, FALSE,
       FALSE, FALSE, FALSE, FALSE, FALSE, TRUE,
       TRUE, FALSE, FALSE, FALSE, FALSE, FALSE,
       FALSE, FALSE, FALSE, FALSE, FALSE, TRUE,
       TRUE, FALSE, FALSE, FALSE, FALSE, FALSE,
       FALSE, FALSE, FALSE, FALSE, FALSE, FALSE,
       FALSE, FALSE, FALSE, FALSE, FALSE, FALSE,
       FALSE, FALSE >>

(***************************************************************************)
(* Layouts.  A Layout is the pair <<lower, upper>> of its two layers; a    *)
(* layer is a function from positions to characters.                       *)
(***************************************************************************)
Lower(l) == l[1]
Upper(l) == l[2]

\* the keys (unshifted, shifted) a position of a base layout may hold:
\* nothing, a letter of its own, the space of the presets (the same character
\* in both layers), and for one position a non-ASCII letter
KeyChoice(p, c) ==
    CASE c = 0 -> << NUL, NUL >>
      [] c = 1 -> << 97 + p, 65 + p >>
      [] c = 2 -> << 32, 32 >>
      [] OTHER -> << 233, 201 >>

KeyChoices == { c \in [Pos -> 0 .. 3] : \A p \in Pos : c[p] = 3 => p = 1 }

LayoutOf(c) ==
    << [p \in Pos |-> KeyChoice(p, c[p])[1]], [p \in Pos |-> KeyChoice(p, c[p])[2]] >>

BaseLayouts == { LayoutOf(c) : c \in KeyChoices }

\* a few of them: all keys assigned; the null sentinel at the first and the
\* last two positions, as in the presets; a non-ASCII letter; the same key at
\* two positions; nothing assigned; a mixture
SampleChoices ==
    { [p \in Pos |-> 1],
      [p \in Pos |-> IF p = 0 \/ p >= NumKeys - 2 THEN 0 ELSE 1],
      [p \in Pos |-> IF p = 1 THEN 3 ELSE 1],
      [p \in Pos |-> IF p \in {0, 3} THEN 2 ELSE 1],
      [p \in Pos |-> 0],
      [p \in Pos |-> IF p = 1 THEN 3 ELSE p % 3] }

SampleLayouts == { LayoutOf(c) : c \in SampleChoices }

\* the layouts the searches start from: one key assigned and the null
\* sentinel everywhere else, all keys assigned, and two keys assigned
OneKeyLayout == LayoutOf([p \in Pos |-> IF p = 1 THEN 1 ELSE 0])
AllKeysLayout == LayoutOf([p \in Pos |-> 1])
TwoKeysLayout == LayoutOf([p \in Pos |-> IF p \in {1, 3} THEN 1 ELSE 0])

\* Layer::swap, with its temporary
SwapLostTemp(layer, i, j) ==
    LET l1 == [layer EXCEPT ![i] = layer[j]]
    IN  [l1 EXCEPT ![j] = l1[i]]

Swap(layer, i, j) ==
    LET temp == layer[i]
        l1 == [layer EXCEPT ![i] = layer[j]]
    IN  [l1 EXCEPT ![j] = temp]

\* lower.swap(i, j); upper.swap(i, j) (a variant that leaves the upper layer)
SwapLowerOnly(l, i, j) == << Swap(Lower(l), i, j), Upper(l) >>

SwapBoth(l, i, j) == << Swap(Lower(l), i, j), Swap(Upper(l), i, j) >>


(***************************************************************************)
(* State.                                                                  *)
(***************************************************************************)
VARIABLES
    \* LayoutPermutations: orig_layout, swap_idx, started
    orig_layout, swap_idx, started,
    \* what the last call of next returned: <<>> for None, <<layout>> for Some
    item,
    \* history of the enumeration: the swaps done for each yielded layout
    yielded,
    \* "ready", or "panicked" once a call of next has panicked
    perm_pc,
    \* the Layout a shuffle or a swap acts on, the layout it started from, the
    \* swaps done so far with the layout before each
    layout, base, trail,
    \* the calls of shuffle made: the times asked for and the swaps done
    shuffle_calls,
    \* the LayoutPosMap built last and the layout it was built from
    map, map_of,
    \* simulate or refine, and its arguments
    driver, init_layout, len, top_layouts, num_swaps,
    \* the position of the driver in its code
    pc,
    \* simulate and refine: the LinkedList of BestLayoutsEntry
    best_layouts,
    \* simulate: accepted_layout, accepted_penalty, the loop variable i
    accepted_layout, accepted_penalty, iter,
    \* simulate: the candidate of the last iteration, its scaled penalty and
    \* what accept_transition answered
    tried,
    \* simulate: the penalties of the entries handed to list_insert_ordered
    inserted,
    \* refine: curr_layout, curr_penalty, visited_layouts
    curr_layout, curr_penalty, visited_layouts,
    \* refine: the rounds finished and the penalties scored in this round
    rounds, round_scores,
    \* refine: the layouts the current round skipped as already visited
    skipped,
    \* refine: the layouts handed to list_insert_ordered in the whole run, each
    \* with the number of the round that did it
    offered,
    \* the scaled penalty calculate_penalty has returned for a layout
    scored,
    \* prepare_quartad_list: the corpus, the characters consumed, the window
    \* (byte offsets into the corpus), the table and where the scan stands
    string, scan_i, range, quartads, scan_pc,
    \* what calculate_penalty returned for detailed = FALSE and detailed = TRUE
    results,
    \* calculate_same_finger_penalty: its arguments << curr, old1 >> and, once
    \* it has been called, what it returned
    presses, same_finger

permVars == << orig_layout, swap_idx, started, item, yielded, perm_pc >>
layoutVars == << layout, base, trail, shuffle_calls, map, map_of >>
argVars == << driver, init_layout, len, top_layouts, num_swaps >>
simVars == << accepted_layout, accepted_penalty, iter, tried, inserted >>
refVars == << curr_layout, curr_penalty, visited_layouts, rounds, round_scores, skipped, offered >>
searchVars == << argVars, pc, best_layouts, simVars, refVars, scored >>
textVars == << string, scan_i, range, quartads, scan_pc, results, presses, same_finger >>
vars == << permVars, layoutVars, searchVars, textVars >>

None == << >>
Some(x) == << x >>

\* the variables of a component that a specification does not run
PermIdle ==
    /\ orig_layout = None
    /\ swap_idx = << >>
    /\ started = FALSE
    /\ item = None
    /\ yielded = << >>
    /\ perm_pc = "ready"

LayoutIdle ==
    /\ layout = None
    /\ base = None
    /\ trail = << >>
    /\ shuffle_calls = << >>
    /\ map = None
    /\ map_of = None

SearchIdle ==
    /\ driver = "none"
    /\ init_layout = None
    /\ len = 0
    /\ top_layouts = 0
    /\ num_swaps = 0
    /\ pc = "idle"
    /\ best_layouts = << >>
    /\ accepted_layout = None
    /\ accepted_penalty = 0
    /\ iter = 0
    /\ tried = None
    /\ inserted = << >>
    /\ curr_layout = None
    /\ curr_penalty = 0
    /\ visited_layouts = {}
    /\ rounds = 0
    /\ round_scores = {}
    /\ skipped = {}
    /\ offered = << >>
    /\ scored = {}

TextIdle ==
    /\ string = << >>
    /\ scan_i = 0
    /\ range = [start |-> 0, end |-> 0]
    /\ quartads = << >>
    /\ scan_pc = "idle"
    /\ results = << >>
    /\ presses = << >>
    /\ same_finger = << >>

(***************************************************************************)
(* LayoutPermutations.                                                     *)
(***************************************************************************)
\* LayoutPermutations::new: 2 * depth zeros, not started
NewSwapIdx(depth) == [i \in 0 .. (2 * depth - 1) |-> 0]

\* the position a swap index stands for
SwapPos(e) == e + LAYOUT_MASK_SWAP_OFFSETS[e]

\* next, started: the entries that can still be incremented
Incrementable(s) ==
    { i \in DOMAIN s : s[i] + 1 < LAYOUT_MASK_NUM_SWAPPABLE - i }

\* next: the first index has no room check when the generator starts
FirstIdx == 1
FirstVal == 0

\* for i in 0..idx { swap_idx[i] = val + idx - i }
ResetBelowFlat(s, idx, val) ==
    [i \in DOMAIN s |-> IF i < idx THEN val ELSE s[i]]

ResetBelow(s, idx, val) ==
    [i \in DOMAIN s |-> IF i < idx THEN val + idx - i ELSE s[i]]

\* next, started: increment the first entry that has room, reset those below
Advance(s) ==
    LET idx == CHOOSE i \in Incrementable(s) : \A k \in Incrementable(s) : i <= k
        val == s[idx] + 1
    IN  ResetBelow([s EXCEPT ![idx] = val], idx, val)

\* the while loop of next: swap the pairs (swap_idx[i], swap_idx[i + 1])
RECURSIVE ApplySwaps(_, _, _)
ApplySwaps(l, s, i) ==
    IF i >= Cardinality(DOMAIN s) THEN l
    ELSE ApplySwaps(SwapBoth(l, SwapPos(s[i]), SwapPos(s[i + 1])), s, i + 2)

\* the pairs of positions the while loop swaps, in order
SwapPairs(s) ==
    [k \in 1 .. (Cardinality(DOMAIN s) \div 2) |->
        << SwapPos(s[2 * (k - 1)]), SwapPos(s[2 * (k - 1) + 1]) >>]

\* next panics: the first call writes swap_idx[0] of an empty vector; a
\* started call that finds no entry with room below index
\* LAYOUT_MASK_NUM_SWAPPABLE goes on to an index i above it, where the usize
\* LAYOUT_MASK_NUM_SWAPPABLE - i overflows (a panic where overflow is checked;
\* where it wraps, the entry is incremented and the reset writes an index
\* past LAYOUT_MASK_SWAP_OFFSETS, a panic as well)
NextPanics(s, st) ==
    IF ~st
    THEN FirstIdx > Cardinality(DOMAIN s)
    ELSE /\ Incrementable(s) = {}
         /\ \E i \in DOMAIN s : i > LAYOUT_MASK_NUM_SWAPPABLE

\* one call of next on the generator
PermStep ==
    /\ orig_layout # None
    /\ perm_pc = "ready"
    /\ IF NextPanics(swap_idx, started)
       THEN /\ perm_pc' = "panicked"
            /\ started' = TRUE
            /\ UNCHANGED << swap_idx, item, yielded >>
       ELSE LET some == (~started) \/ Incrementable(swap_idx) # {}
                s == IF ~started
                     THEN ResetBelow(swap_idx, FirstIdx, FirstVal)
                     ELSE IF some THEN Advance(swap_idx) ELSE swap_idx
            IN  /\ started' = TRUE
                /\ swap_idx' = s
                /\ item' = IF some THEN Some(ApplySwaps(orig_layout[1], s, 0)) ELSE None
                /\ yielded' = IF some
                              THEN Append(yielded,
                                          [swaps |-> SwapPairs(s),
                                           layout |-> ApplySwaps(orig_layout[1], s, 0)])
                              ELSE yielded
                /\ perm_pc' = "ready"
    /\ UNCHANGED orig_layout

\* next called on its own
PermNext ==
    /\ PermStep
    /\ UNCHANGED << layoutVars, searchVars, textVars >>

InitPerm ==
    /\ \E l \in BaseLayouts : orig_layout = Some(l)
    /\ \E depth \in 0 .. MaxDepth : swap_idx = NewSwapIdx(depth)
    /\ started = FALSE
    /\ item = None
    /\ yielded = << >>
    /\ perm_pc = "ready"
    /\ LayoutIdle
    /\ SearchIdle
    /\ TextIdle

NextPerm == PermNext

SpecPerm == InitPerm /\ [][NextPerm]_vars

\* the caller's for loop calls next until it returns None
FairSpecPerm == SpecPerm /\ WF_vars(NextPerm)

(***************************************************************************)
(* Layout: shuffle and the position map.                                   *)
(***************************************************************************)
\* Layout::shuffle_position, r1 and r2 the two random numbers reduced modulo
\* LAYOUT_MASK_NUM_SWAPPABLE and LAYOUT_MASK_NUM_SWAPPABLE - 1
ShufflePositionSamePick(r1, r2) ==
    << r1 + LAYOUT_MASK_SWAP_OFFSETS[r1], r2 + LAYOUT_MASK_SWAP_OFFSETS[r2] >>

ShufflePosition(r1, r2) ==
    LET i == r1
        j == IF r2 >= i THEN r2 + 1 ELSE r2
    IN  << i + LAYOUT_MASK_SWAP_OFFSETS[i], j + LAYOUT_MASK_SWAP_OFFSETS[j] >>

\* the pairs shuffle_position can return
ShufflePositions ==
    { ShufflePosition(r1, r2) :
        r1 \in 0 .. (LAYOUT_MASK_NUM_SWAPPABLE - 1),
        r2 \in 0 .. (LAYOUT_MASK_NUM_SWAPPABLE - 2) }

\* the KeyPress fill_position_map stores for character c found at position i
KeyPressAtFirstFinger(c, i) ==
    [kc |-> c, pos |-> i, finger |-> KEY_FINGERS[1], hand |-> KEY_HANDS[i + 1],
     row |-> KEY_ROWS[i + 1], center |-> KEY_CENTER_COLUMN[i + 1]]

KeyPressAt(c, i) ==
    [kc |-> c, pos |-> i, finger |-> KEY_FINGERS[i + 1], hand |-> KEY_HANDS[i + 1],
     row |-> KEY_ROWS[i + 1], center |-> KEY_CENTER_COLUMN[i + 1]]

\* Layer::fill_position_map: the positions in order, later ones overwrite
RECURSIVE FillPositionMap(_, _, _)
FillPositionMap(layer, m, i) ==
    IF i >= NumKeys THEN m
    ELSE FillPositionMap(layer,
            IF layer[i] < ASCII_LIMIT
            THEN [m EXCEPT ![layer[i]] = Some(KeyPressAt(layer[i], i))]
            ELSE m,
            i + 1)

\* Layout::get_position_map: [None; 128], then the lower and the upper layer
GetPositionMap(l) ==
    FillPositionMap(Upper(l),
        FillPositionMap(Lower(l), [c \in 0 .. (ASCII_LIMIT - 1) |-> None], 0), 0)

\* LayoutPosMap::get_key_position
GetKeyPosition(m, kc) == IF kc < ASCII_LIMIT THEN m[kc] ELSE None

\* one iteration of the loop of Layout::shuffle
ShuffleStep ==
    /\ layout # None
    /\ map = None
    /\ Len(trail) < MaxSwaps
    /\ \E ij \in ShufflePositions :
          /\ layout' = Some(SwapBoth(layout[1], ij[1], ij[2]))
          /\ trail' = Append(trail, [i |-> ij[1], j |-> ij[2], before |-> layout[1]])
    /\ UNCHANGED << base, shuffle_calls, map, map_of, permVars, searchVars, textVars >>

\* lower.swap(i, j); upper.swap(i, j) for any two positions
SwapStep ==
    /\ layout # None
    /\ map = None
    /\ Len(trail) < MaxSwaps
    /\ \E i, j \in Pos :
          /\ layout' = Some(SwapBoth(layout[1], i, j))
          /\ trail' = Append(trail, [i |-> i, j |-> j, before |-> layout[1]])
    /\ UNCHANGED << base, shuffle_calls, map, map_of, permVars, searchVars, textVars >>

\* let position_map = layout.get_position_map()
BuildPositionMap ==
    /\ layout # None
    /\ map = None
    /\ map' = Some(GetPositionMap(layout[1]))
    /\ map_of' = layout
    /\ UNCHANGED << layout, base, trail, shuffle_calls, permVars, searchVars, textVars >>

InitLayout ==
    /\ \E l \in SampleLayouts :
          /\ layout = Some(l)
          /\ base = Some(l)
    /\ trail = << >>
    /\ shuffle_calls = << >>
    /\ map = None
    /\ map_of = None
    /\ PermIdle
    /\ SearchIdle
    /\ TextIdle

NextLayout ==
    \/ ShuffleStep
    \/ SwapStep
    \/ BuildPositionMap

SpecLayout == InitLayout /\ [][NextLayout]_vars

(***************************************************************************)
(* Layout::shuffle as a whole call.                                        *)
(***************************************************************************)
\* for _ in 0..times: the runs of the loop from layout l, each the sequence
\* of its swaps with the layout before each
RECURSIVE ShuffleRuns(_, _)
ShuffleRuns(l, times) ==
    IF times = 0 THEN { << >> }
    ELSE UNION { { << [i |-> ij[1], j |-> ij[2], before |-> l] >> \o rest :
                      rest \in ShuffleRuns(SwapBoth(l, ij[1], ij[2]), times - 1) } :
                 ij \in ShufflePositions }

\* the layout a run of swaps leaves
RunResult(l, run) ==
    IF run = << >> THEN l
    ELSE LET last == run[Len(run)] IN SwapBoth(last.before, last.i, last.j)

\* layout.shuffle(times)
ShuffleCall ==
    /\ layout # None
    /\ map = None
    /\ Len(shuffle_calls) < MaxSwaps
    /\ \E times \in 0 .. MaxSwaps :
          /\ Len(trail) + times <= MaxSwaps
          /\ \E run \in ShuffleRuns(layout[1], times) :
                /\ layout' = Some(RunResult(layout[1], run))
                /\ trail' = trail \o run
                /\ shuffle_calls' =
                      Append(shuffle_calls, [times |-> times, swaps |-> Len(run)])
    /\ UNCHANGED << base, map, map_of, permVars, searchVars, textVars >>

InitShuffle == InitLayout

NextShuffle == ShuffleCall

SpecShuffle == InitShuffle /\ [][NextShuffle]_vars

(***************************************************************************)
(* Layout::from_string.  The source reads the first 34 of its 50 positions *)
(* from a text whose second grid starts 40 characters after the first;     *)
(* the model reads all but the last of its positions, from a text with one *)
(* index skipped in the grid and the second grid right after the first.    *)
(***************************************************************************)
\* for i in 0..34: the positions from_string reads
FILE_POSITIONS == NumKeys - 1

\* static LAYOUT_FILE_IDXS: the index in the text of the key of a position
LAYOUT_FILE_IDXS == [p \in Pos |-> IF p < 2 THEN p ELSE p + 1]

\* file_i + 40: the distance of the shifted grid from the unshifted one
SHIFT_OFFSET == NumKeys + 2

\* the characters of a layout text
FileChars == { 120, 233 }

\* the layout texts
FileTexts == UNION { [1 .. n -> FileChars] : n \in 0 .. MaxFile }

\* *s.get(idx).unwrap_or(&'\0')
GetOrNul(s, idx) == IF idx < Len(s) THEN s[idx + 1] ELSE NUL

\* one iteration of the loop of from_string (a variant that reads both layers
\* at file_i)
ReadKeySameIndex(s, l, i) ==
    LET file_i == LAYOUT_FILE_IDXS[i]
    IN  << [Lower(l) EXCEPT ![i] = GetOrNul(s, file_i)],
           [Upper(l) EXCEPT ![i] = GetOrNul(s, file_i)] >>

ReadKey(s, l, i) ==
    LET file_i == LAYOUT_FILE_IDXS[i]
    IN  << [Lower(l) EXCEPT ![i] = GetOrNul(s, file_i)],
           [Upper(l) EXCEPT ![i] = GetOrNul(s, file_i + SHIFT_OFFSET)] >>

\* the loop of from_string from position i on
RECURSIVE ReadKeys(_, _, _)
ReadKeys(s, l, i) ==
    IF i >= FILE_POSITIONS THEN l ELSE ReadKeys(s, ReadKey(s, l, i), i + 1)

\* Layout::from_string: both layers ['\0'; 50], then the loop
from_string(s) == ReadKeys(s, << [p \in Pos |-> NUL], [p \in Pos |-> NUL] >>, 0)

\* let layout = Layout::from_string(&string)
FromString ==
    /\ layout = None
    /\ layout' = Some(from_string(string))
    /\ base' = Some(from_string(string))
    /\ UNCHANGED << trail, shuffle_calls, map, map_of, permVars, searchVars, textVars >>

InitParse ==
    /\ string \in FileTexts
    /\ scan_i = 0
    /\ range = [start |-> 0, end |-> 0]
    /\ quartads = << >>
    /\ scan_pc = "idle"
    /\ results = << >>
    /\ presses = << >>
    /\ same_finger = << >>
    /\ LayoutIdle
    /\ PermIdle
    /\ SearchIdle

NextParse == FromString

SpecParse == InitParse /\ [][NextParse]_vars

(***************************************************************************)
(* Shuffles and generators on one layout: a layout is shuffled, a          *)
(* generator is created from it, and a layout the generator yields is      *)
(* taken as the layout to go on from (as refine does with the best one).   *)
(***************************************************************************)
\* the swaps of the while loop of next from pair k on, each with the layout
\* before it
RECURSIVE SwapTrail(_, _, _)
SwapTrail(l, pairs, k) ==
    IF k > Len(pairs) THEN << >>
    ELSE << [i |-> pairs[k][1], j |-> pairs[k][2], before |-> l] >>
            \o SwapTrail(SwapBoth(l, pairs[k][1], pairs[k][2]), pairs, k + 1)

\* layout.shuffle(1) while no generator is in use
ShuffleBetween ==
    /\ orig_layout = None
    /\ ShuffleStep

\* LayoutPermutations::new(&layout, depth)
StartPermutations ==
    /\ layout # None
    /\ orig_layout = None
    /\ \E depth \in 1 .. MaxDepth :
          /\ 2 * depth - 1 <= LAYOUT_MASK_NUM_SWAPPABLE
          /\ Len(trail) + depth <= MaxSwaps
          /\ swap_idx' = NewSwapIdx(depth)
    /\ orig_layout' = layout
    /\ started' = FALSE
    /\ item' = None
    /\ yielded' = << >>
    /\ perm_pc' = "ready"
    /\ UNCHANGED << layoutVars, searchVars, textVars >>

\* next on the generator in use
NextPermutation ==
    /\ orig_layout # None
    /\ PermNext

\* the layout yielded last becomes the layout; the generator is dropped
TakeItem ==
    /\ orig_layout # None
    /\ item # None
    /\ layout' = item
    /\ trail' = trail \o SwapTrail(orig_layout[1], SwapPairs(swap_idx), 1)
    /\ orig_layout' = None
    /\ swap_idx' = << >>
    /\ started' = FALSE
    /\ item' = None
    /\ yielded' = << >>
    /\ perm_pc' = "ready"
    /\ UNCHANGED << base, shuffle_calls, map, map_of, searchVars, textVars >>

InitMoves == InitLayout

NextMoves ==
    \/ ShuffleBetween
    \/ StartPermutations
    \/ NextPermutation
    \/ TakeItem

SpecMoves == InitMoves /\ [][NextMoves]_vars

(***************************************************************************)
(* prepare_quartad_list.  The corpus is a sequence of characters; a &str   *)
(* is addressed by byte offsets into its UTF-8 encoding, and a slice whose *)
(* ends are not character boundaries panics.                               *)
(***************************************************************************)
\* the characters of a corpus: two letters, an ASCII character no layout
\* holds, a letter outside ASCII
TextChars == { 97, 98, 35, 233 }

\* every corpus of at most n characters
RECURSIVE TextsUpTo(_)
TextsUpTo(n) ==
    IF n = 0 THEN { << >> }
    ELSE TextsUpTo(n - 1) \cup
         { Append(t, c) : t \in { x \in TextsUpTo(n - 1) : Len(x) = n - 1 }, c \in TextChars }

\* the number of bytes of the UTF-8 encoding of character c
Utf8Len(c) ==
    IF c < 128 THEN 1 ELSE IF c < 2048 THEN 2 ELSE IF c < 65536 THEN 3 ELSE 4

\* the byte offset of the end of the n-th character of text t
RECURSIVE ByteOffset(_, _)
ByteOffset(t, n) ==
    IF n = 0 THEN 0 ELSE ByteOffset(t, n - 1) + Utf8Len(t[n])

\* str::is_char_boundary
IsCharBoundary(t, b) == \E n \in 0 .. Len(t) : ByteOffset(t, n) = b

\* the number of characters of t that end at or before byte offset b
CharsBefore(t, b) == Cardinality({ n \in 1 .. Len(t) : ByteOffset(t, n) <= b })

\* &string[start..end], byte offsets: None for the panic of a slice out of
\* bounds or not on character boundaries
Slice(t, start, end) ==
    IF /\ start <= end
       /\ end <= ByteOffset(t, Len(t))
       /\ IsCharBoundary(t, start)
       /\ IsCharBoundary(t, end)
    THEN Some(SubSeq(t, CharsBefore(t, start) + 1, CharsBefore(t, end)))
    ELSE None

\* range.end = i + 1 and the clipping of range.start (a variant that does
\* not clip)
ExtendUnclipped(r, i) == [start |-> r.start, end |-> i + 1]

Extend(r, i) ==
    LET end == i + 1
    IN  [start |-> IF end > 3 /\ r.start < end - 4 THEN end - 4 ELSE r.start,
         end |-> end]

\* *quartads.entry(quartad).or_insert(0) += 1
Counted(q, k) ==
    IF k \in DOMAIN q THEN [q EXCEPT ![k] = @ + 1]
    ELSE [x \in DOMAIN q \cup { k } |-> IF x = k THEN 1 ELSE q[x]]

\* one iteration of the loop over string.chars().enumerate()
ScanChar ==
    /\ scan_pc = "scan"
    /\ scan_i < Len(string)
    /\ LET c == string[scan_i + 1]
       IN  IF GetKeyPosition(map[1], c) # None
           THEN LET r == Extend(range, scan_i)
                    quartad == Slice(string, r.start, r.end)
                IN  /\ range' = r
                    /\ IF quartad = None
                       THEN /\ scan_pc' = "panic"
                            /\ UNCHANGED quartads
                       ELSE /\ quartads' = Counted(quartads, quartad[1])
                            /\ UNCHANGED scan_pc
           ELSE /\ range' = [start |-> scan_i + 1, end |-> scan_i + 1]
                /\ UNCHANGED << quartads, scan_pc >>
    /\ scan_i' = scan_i + 1
    /\ UNCHANGED << string, results, presses, same_finger, permVars, layoutVars,
                    searchVars >>

\* the loop is over: QuartadList(quartads)
ScanReturn ==
    /\ scan_pc = "scan"
    /\ scan_i = Len(string)
    /\ scan_pc' = "done"
    /\ UNCHANGED << string, scan_i, range, quartads, results, presses, same_finger,
                    permVars, layoutVars, searchVars >>

\* a corpus and the position map of a layout
InitText ==
    /\ \E l \in { OneKeyLayout, AllKeysLayout } :
          /\ layout = Some(l)
          /\ base = Some(l)
          /\ map = Some(GetPositionMap(l))
          /\ map_of = Some(l)
    /\ trail = << >>
    /\ shuffle_calls = << >>
    /\ string \in TextsUpTo(MaxText)
    /\ scan_i = 0
    /\ range = [start |-> 0, end |-> 0]
    /\ quartads = << >>
    /\ scan_pc = "scan"
    /\ results = << >>
    /\ presses = << >>
    /\ same_finger = << >>
    /\ PermIdle
    /\ SearchIdle

NextText ==
    \/ ScanChar
    \/ ScanReturn

SpecText == InitText /\ [][NextText]_vars

(***************************************************************************)
(* The penalty engine.  Every cost of the rule table is a multiple of      *)
(* 1/40 point; a cost is kept as its number of fortieths, so that sums are *)
(* exact.  A KeyPenaltyResult is kept as its name and total (high_keys,    *)
(* the per-substring diagnostics, do not enter any total).                 *)
(***************************************************************************)
\* num / den points
Points(num, den) == (40 * num) \div den

\* the first entries of static BASE_PENALTY, indexed by position + 1
BASE_PENALTY ==
    << Points(7, 2), Points(1, 4), Points(1, 4), Points(3, 2), Points(5, 2), Points(5, 2),
       Points(3, 2), Points(1, 4), Points(1, 4), Points(7, 2), Points(9, 2), Points(5, 4) >>

\* the outer flag of a key press: the extreme pinky columns
KEY_OUTER ==
    << TRUE, FALSE, FALSE, FALSE, FALSE, FALSE,
       FALSE, FALSE, FALSE, FALSE, FALSE, TRUE >>

\* init(): the names of the rules, result[0] .. result[11]
PENALTY_NAMES ==
    << "base", "alternating hand", "same finger", "stretch", "same hand",
       "roll reversal", "roll out", "roll in", "long jump sandwich", "twist",
       "pinky/ring alternation", "same key" >>

is_roll_out(curr, prev) ==
    CASE curr = "Thumb" -> FALSE
      [] curr = "Index" -> prev = "Thumb"
      [] curr = "Middle" -> prev = "Thumb" \/ prev = "Index"
      [] curr = "Ring" -> prev # "Pinky" /\ prev # "Ring"
      [] curr = "Pinky" -> prev # "Pinky"

is_roll_in(curr, prev) ==
    CASE curr = "Thumb" -> prev # "Thumb"
      [] curr = "Index" -> prev # "Thumb" /\ prev # "Index"
      [] curr = "Middle" -> prev = "Pinky" \/ prev = "Ring"
      [] curr = "Ring" -> prev = "Pinky"
      [] curr = "Pinky" -> FALSE

\* calculate_same_finger_penalty: the cases <<curr.pos, old1.pos, points>> of
\* the index finger, one line for each if of the source
SAME_FINGER_CASES ==
    { << 14, 15, 0 >>, << 15, 14, 0 >>, << 16, 17, 0 >>, << 17, 16, 0 >>,
      << 15, 3, 0 >>, << 3, 15, 0 >>, << 16, 6, 0 >>, << 6, 16, 0 >>,
      << 26, 14, 1 >>, << 14, 26, 1 >>, << 27, 17, 1 >>, << 17, 27, 1 >>,
      << 3, 4, 3 >>, << 4, 3, 3 >>, << 5, 6, 3 >>, << 6, 5, 3 >>,
      << 25, 14, 3 >>, << 14, 25, 3 >>, << 28, 17, 3 >>, << 17, 28, 3 >>,
      << 14, 3, 4 >>, << 3, 14, 4 >>, << 17, 6, 4 >>, << 6, 17, 4 >>,
      << 26, 3, 6 >>, << 3, 26, 6 >>, << 27, 6, 6 >>, << 6, 27, 6 >>,
      << 26, 25, 7 >>, << 25, 26, 7 >>, << 27, 28, 7 >>, << 28, 27, 7 >>,
      << 25, 3, 8 >>, << 3, 25, 8 >>, << 28, 6, 8 >>, << 6, 28, 8 >>,
      << 14, 4, 10 >>, << 4, 14, 10 >>, << 17, 5, 10 >>, << 5, 17, 10 >>,
      << 25, 15, 10 >>, << 15, 25, 10 >>, << 28, 16, 10 >>, << 16, 28, 10 >>,
      << 26, 15, 15 >>, << 15, 26, 15 >>, << 27, 16, 15 >>, << 16, 27, 15 >>,
      << 15, 4, 15 >>, << 4, 15, 15 >>, << 16, 5, 15 >>, << 5, 16, 15 >>,
      << 26, 4, 20 >>, << 4, 26, 20 >>, << 27, 5, 20 >>, << 5, 27, 20 >>,
      << 25, 4, 25 >>, << 4, 25, 25 >>, << 28, 5, 25 >>, << 5, 28, 25 >> }

\* calculate_same_finger_penalty: None when one of its assertions fails
calculate_same_finger_penalty(curr, old1) ==
    IF curr.finger = "Index"
    THEN IF \E c \in SAME_FINGER_CASES : c[1] = curr.pos /\ c[2] = old1.pos
         THEN LET c == CHOOSE x \in SAME_FINGER_CASES : x[1] = curr.pos /\ x[2] = old1.pos
              IN  Some(Points(c[3], 1))
         ELSE None
    ELSE IF curr.center THEN None
    ELSE LET long_jump == \/ curr.row = "Top" /\ old1.row = "Bottom"
                          \/ curr.row = "Bottom" /\ old1.row = "Top"
         IN  Some(Points((IF long_jump THEN 15 ELSE 5)
                         + (IF KEY_OUTER[curr.pos + 1] THEN 5 ELSE 0)
                         + (IF KEY_OUTER[old1.pos + 1] THEN 5 ELSE 0), 1))

\* calculate_stretch_penalty: the cases among the positions of the first row
STRETCH_CASES ==
    { << 4, 0, 1 >>, << 0, 4, 1 >>, << 5, 9, 1 >>, << 9, 5, 1 >>,
      << 4, 11, 1 >>, << 11, 4, 1 >>, << 4, 1, 1 >>, << 1, 4, 1 >>,
      << 5, 8, 1 >>, << 8, 5, 1 >>, << 4, 2, 2 >>, << 2, 4, 2 >>,
      << 5, 7, 2 >>, << 7, 5, 2 >>, << 5, 10, 3 >>, << 10, 5, 3 >> }

calculate_stretch_penalty(curr, old1) ==
    IF \E c \in STRETCH_CASES : c[1] = curr.pos /\ c[2] = old1.pos
    THEN LET c == CHOOSE x \in STRETCH_CASES : x[1] = curr.pos /\ x[2] = old1.pos
         IN  Points(c[3], 1)
    ELSE 0

calculate_same_key_penalty(curr, old1) ==
    IF curr.finger = "Pinky" THEN Points(3, 1) ELSE 0

\* one rule that applies: the index of its bucket, its penalty, and whether
\* the bucket is only updated for a penalty > 0
Applies(rule, penalty, positive) ==
    << [rule |-> rule, penalty |-> penalty, positive |-> positive] >>

\* penalize, the two key penalties
TwoKeyRules(count, curr, old1) ==
    IF curr.hand # old1.hand THEN << >>
    ELSE (IF curr.finger = old1.finger /\ curr.pos # old1.pos
          THEN Applies(2, calculate_same_finger_penalty(curr, old1)[1] * count, TRUE)
          ELSE << >>)
      \o (IF curr.finger # old1.finger
          THEN Applies(3, calculate_stretch_penalty(curr, old1) * count, TRUE)
          ELSE << >>)
      \o (IF is_roll_out(curr.finger, old1.finger)
          THEN Applies(6, Points(1, 8) * count, FALSE)
          ELSE << >>)
      \o (IF is_roll_in(curr.finger, old1.finger)
          THEN Applies(7, (0 - Points(1, 8)) * count, FALSE)
          ELSE << >>)
      \o (IF curr.pos = old1.pos
          THEN Applies(11, calculate_same_key_penalty(curr, old1) * count, TRUE)
          ELSE << >>)

\* penalize, the three key penalties
ThreeKeyRules(count, curr, old1, old2) ==
    (IF curr.hand = old1.hand /\ old1.hand = old2.hand
     THEN (IF \/ curr.finger = "Middle" /\ old1.finger = "Pinky" /\ old2.finger = "Ring"
              \/ curr.finger = "Ring" /\ old1.finger = "Pinky" /\ old2.finger = "Middle"
           THEN Applies(5, Points(20, 1) * count, FALSE)
           ELSE << >>)
       \o (IF /\ \/ curr.row = "Top" /\ old1.row = "Home" /\ old2.row = "Bottom"
                 \/ curr.row = "Bottom" /\ old1.row = "Home" /\ old2.row = "Top"
              /\ \/ /\ is_roll_out(curr.finger, old1.finger)
                    /\ is_roll_out(old1.finger, old2.finger)
                 \/ /\ is_roll_in(curr.finger, old1.finger)
                    /\ is_roll_in(old1.finger, old2.finger)
           THEN Applies(9, Points(10, 1) * count, FALSE)
           ELSE << >>)
       \o (IF \/ curr.finger = "Ring" /\ old1.finger = "Pinky" /\ old2.finger = "Ring"
              \/ curr.finger = "Pinky" /\ old1.finger = "Ring" /\ old2.finger = "Pinky"
           THEN Applies(10, Points(15, 1) * count, FALSE)
           ELSE << >>)
     ELSE << >>)
    \o (IF /\ curr.hand = old2.hand
           /\ curr.finger = old2.finger
           /\ \/ curr.row = "Top" /\ old2.row = "Bottom"
              \/ curr.row = "Bottom" /\ old2.row = "Top"
        THEN Applies(8, Points(3, 1) * count, FALSE)
        ELSE << >>)

\* penalize, the four key penalties
FourKeyRules(count, curr, old1, old2, old3) ==
    IF curr.hand = old1.hand /\ old1.hand = old2.hand /\ old2.hand = old3.hand
    THEN Applies(4, Points(1, 10) * count, FALSE)
    ELSE IF curr.hand # old1.hand /\ old1.hand # old2.hand /\ old2.hand # old3.hand
    THEN Applies(1, Points(1, 2) * count, FALSE)
    ELSE << >>

\* penalize: the rules that apply, in order, up to the first return
penalize(count, curr, old1, old2, old3) ==
    Applies(0, BASE_PENALTY[curr.pos + 1] * count, FALSE)
    \o (IF old1 = None THEN << >>
        ELSE TwoKeyRules(count, curr, old1[1])
          \o (IF old2 = None THEN << >>
              ELSE ThreeKeyRules(count, curr, old1[1], old2[1])
                \o (IF old3 = None THEN << >>
                    ELSE FourKeyRules(count, curr, old1[1], old2[1], old3[1]))))

\* penalize fails an assertion of calculate_same_finger_penalty
PenalizePanics(curr, old1) ==
    /\ old1 # None
    /\ curr.hand = old1[1].hand
    /\ curr.finger = old1[1].finger
    /\ curr.pos # old1[1].pos
    /\ calculate_same_finger_penalty(curr, old1[1]) = None

\* penalty_for_quartad: the key press of the n-th character from the end
KeyFromEnd(str, position_map, n) ==
    IF Len(str) >= n THEN GetKeyPosition(position_map, str[Len(str) + 1 - n]) ELSE None

QuartadPanics(str, position_map) ==
    /\ KeyFromEnd(str, position_map, 1) # None
    /\ PenalizePanics(KeyFromEnd(str, position_map, 1)[1], KeyFromEnd(str, position_map, 2))

\* penalty_for_quartad: nothing applies when the newest character has no key
penalty_for_quartad(str, count, position_map) ==
    IF KeyFromEnd(str, position_map, 1) = None THEN << >>
    ELSE penalize(count, KeyFromEnd(str, position_map, 1)[1],
                  KeyFromEnd(str, position_map, 2),
                  KeyFromEnd(str, position_map, 3),
                  KeyFromEnd(str, position_map, 4))

\* total += penalty for every rule that applies
RECURSIVE SumPenalties(_)
SumPenalties(applied) ==
    IF applied = << >> THEN 0
    ELSE Head(applied).penalty + SumPenalties(Tail(applied))

\* if detailed [&& penalty > 0.] { result[rule].total += penalty } (a variant
\* that asks penalty > 0 of every rule)
RecordedIfPositive(a, detailed) == detailed /\ a.penalty > 0

Recorded(a, detailed) == detailed /\ (a.positive => a.penalty > 0)

\* what the rules that apply add to result[rule].total
BucketPenalties(applied, rule, detailed) ==
    SumPenalties(SelectSeq(applied, LAMBDA a : a.rule = rule /\ Recorded(a, detailed)))

\* the loop of calculate_penalty over the table: total
RECURSIVE TotalOver(_, _, _)
TotalOver(q, keys, position_map) ==
    IF keys = {} THEN 0
    ELSE LET k == CHOOSE x \in keys : TRUE
         IN  SumPenalties(penalty_for_quartad(k, q[k], position_map))
                + TotalOver(q, keys \ { k }, position_map)

\* the loop of calculate_penalty over the table: result[rule].total
RECURSIVE BucketOver(_, _, _, _, _)
BucketOver(q, keys, position_map, rule, detailed) ==
    IF keys = {} THEN 0
    ELSE LET k == CHOOSE x \in keys : TRUE
         IN  BucketPenalties(penalty_for_quartad(k, q[k], position_map), rule, detailed)
                + BucketOver(q, keys \ { k }, position_map, rule, detailed)

\* calculate_penalty: a panic, or (total, total / len, result) with the
\* quotient kept as the pair of its terms
calculate_penalty(q, length, l, detailed) ==
    LET position_map == GetPositionMap(l)
        total == TotalOver(q, DOMAIN q, position_map)
    IN  IF \E k \in DOMAIN q : QuartadPanics(k, position_map) THEN [panicked |-> TRUE]
        ELSE [panicked |-> FALSE,
              total |-> total,
              scaled |-> << total, length >>,
              result |-> IF detailed
                         THEN [r \in 0 .. (Len(PENALTY_NAMES) - 1) |->
                                 [name |-> PENALTY_NAMES[r + 1],
                                  total |-> BucketOver(q, DOMAIN q, position_map, r, TRUE)]]
                         ELSE << >>]

\* the characters of the substrings scored: the letters of the keys and an
\* ASCII character no layout holds
ScoreChars == { 97 + p : p \in Pos } \cup { 35 }

\* the substrings of 1 to 4 characters
QuartadKeys ==
    UNION { [1 .. n -> ScoreChars] : n \in 1 .. 4 }

\* a table of one substring, or of one substring and "ae"
ScoreTables ==
    { [k \in { key } |-> n] : key \in QuartadKeys, n \in 1 .. MaxCount }
    \cup { [k \in { key, << 97, 101 >> } |-> IF k = key THEN n ELSE 1] :
              key \in QuartadKeys \ { << 97, 101 >> }, n \in 1 .. MaxCount }

\* calculate_penalty(&quartads, len, &layout, penalties, detailed)
CalculatePenalty ==
    /\ scan_pc = "table"
    /\ \E detailed \in BOOLEAN \ DOMAIN results :
          results' = [d \in DOMAIN results \cup { detailed } |->
                        IF d = detailed
                        THEN calculate_penalty(quartads, len, layout[1], detailed)
                        ELSE results[d]]
    /\ UNCHANGED << string, scan_i, range, quartads, scan_pc, presses, same_finger,
                    permVars, layoutVars, searchVars >>

\* a quartad table, a corpus length and a layout to score
InitScore ==
    /\ quartads \in ScoreTables
    /\ \E l \in { OneKeyLayout, AllKeysLayout } :
          /\ layout = Some(l)
          /\ base = Some(l)
    /\ trail = << >>
    /\ shuffle_calls = << >>
    /\ map = None
    /\ map_of = None
    /\ len = 1
    /\ string = << >>
    /\ scan_i = 0
    /\ range = [start |-> 0, end |-> 0]
    /\ scan_pc = "table"
    /\ results = << >>
    /\ presses = << >>
    /\ same_finger = << >>
    /\ driver = "none"
    /\ init_layout = None
    /\ top_layouts = 0
    /\ num_swaps = 0
    /\ pc = "idle"
    /\ best_layouts = << >>
    /\ accepted_layout = None
    /\ accepted_penalty = 0
    /\ iter = 0
    /\ tried = None
    /\ inserted = << >>
    /\ curr_layout = None
    /\ curr_penalty = 0
    /\ visited_layouts = {}
    /\ rounds = 0
    /\ round_scores = {}
    /\ skipped = {}
    /\ offered = << >>
    /\ scored = {}
    /\ PermIdle

NextScore == CalculatePenalty

SpecScore == InitScore /\ [][NextScore]_vars

(***************************************************************************)
(* The search drivers and their best-layouts list.                         *)
(*                                                                         *)
(* calculate_penalty is a function of the layout that is fixed for a run:  *)
(* the scaled penalty of a layout is chosen when the layout is first       *)
(* scored and kept in scored.  It is total / len, NaN for every layout     *)
(* when the corpus is empty (0.0 / 0.0).                                   *)
(***************************************************************************)
NaN == MaxPenalty + 1

\* the scaled penalties a run can see
PenaltyValues == IF len = 0 THEN { NaN } ELSE 0 .. MaxPenalty

\* calculate_penalty(...).1 of layout l: what it returned before, if scored
PenaltyChoices(l) ==
    IF \E e \in scored : e[1] = l
    THEN { e[2] : e \in { x \in scored : x[1] = l } }
    ELSE PenaltyValues

\* f64 partial_cmp, None when either is NaN
PartialCmp(a, b) ==
    IF a = NaN \/ b = NaN THEN None
    ELSE IF a < b THEN Some("Less")
    ELSE IF a = b THEN Some("Equal")
    ELSE Some("Greater")

\* BestLayoutsEntry::cmp: Equal when partial_cmp gives None
Cmp(e1, e2) ==
    IF PartialCmp(e1.penalty, e2.penalty) = None THEN "Equal"
    ELSE PartialCmp(e1.penalty, e2.penalty)[1]

\* f64 >=, false when either is NaN
Ge(a, b) == a # NaN /\ b # NaN /\ a >= b

\* f64 <=, false when either is NaN
Le(a, b) == a # NaN /\ b # NaN /\ a <= b

\* f64 <, false when either is NaN
Lt(a, b) == a # NaN /\ b # NaN /\ a < b

\* list_insert_ordered: the cursor stops at the first entry the new entry is
\* Less than, or at the end of the list (a variant that stops on Greater)
RECURSIVE CursorStopOnGreater(_, _, _)
CursorStopOnGreater(list, entry, k) ==
    IF k > Len(list) THEN k
    ELSE IF Cmp(entry, list[k]) = "Greater" THEN k
    ELSE CursorStopOnGreater(list, entry, k + 1)

RECURSIVE CursorStop(_, _, _)
CursorStop(list, entry, k) ==
    IF k > Len(list) THEN k
    ELSE IF Cmp(entry, list[k]) = "Less" THEN k
    ELSE CursorStop(list, entry, k + 1)

\* list_insert_ordered with a cursor that also stops on an entry of equal
\* penalty
ListInsertBeforeEqual(list, entry) ==
    LET stops == { k \in 1 .. Len(list) : Cmp(entry, list[k]) # "Greater" }
        k == IF stops = {} THEN Len(list) + 1
             ELSE CHOOSE i \in stops : \A j \in stops : i <= j
    IN  SubSeq(list, 1, k - 1) \o << entry >> \o SubSeq(list, k, Len(list))

\* list_insert_ordered: cursor.insert_before(entry)
ListInsertOrdered(list, entry) ==
    LET k == CursorStop(list, entry, 1)
    IN  SubSeq(list, 1, k - 1) \o << entry >> \o SubSeq(list, k, Len(list))

\* while best_layouts.len() > top_layouts { best_layouts.pop_back(); } (a
\* variant that pops at the front)
TruncateFront(list, n) ==
    IF Len(list) > n THEN SubSeq(list, Len(list) - n + 1, Len(list)) ELSE list

Truncate(list, n) == IF Len(list) > n THEN SubSeq(list, 1, n) ELSE list

\* Layout::shuffle(times): the layouts it can leave
RECURSIVE Shuffled(_, _)
Shuffled(l, times) ==
    IF times = 0 THEN { l }
    ELSE UNION { { SwapBoth(x, ij[1], ij[2]) : ij \in ShufflePositions } :
                    x \in Shuffled(l, times - 1) }

\* annealing::accept_transition(delta, i): either answer
AcceptTransition == BOOLEAN

\* simulate up to the loop: score the initial layout, insert it, accept it
SimStart ==
    /\ driver = "simulate"
    /\ pc = "start"
    /\ \E p \in PenaltyChoices(init_layout[1]) :
          /\ scored' = scored \cup { << init_layout[1], p >> }
          /\ best_layouts' =
                ListInsertOrdered(<< >>, [layout |-> init_layout[1], penalty |-> p])
          /\ accepted_layout' = init_layout
          /\ accepted_penalty' = p
          /\ inserted' = << p >>
    /\ iter' = 0
    /\ tried' = None
    /\ pc' = "sim_loop"
    /\ UNCHANGED << argVars, refVars, permVars, layoutVars, textVars >>

\* the body of if annealing::accept_transition(..) (a variant that keeps the
\* penalty accepted before)
AcceptCandidateStalePenalty(curr, p) ==
    /\ accepted_layout' = Some(curr)
    /\ accepted_penalty' = accepted_penalty
    /\ best_layouts' =
          Truncate(ListInsertOrdered(best_layouts,
                      [layout |-> curr, penalty |-> p]), top_layouts)
    /\ inserted' = Append(inserted, p)

AcceptCandidate(curr, p) ==
    /\ accepted_layout' = Some(curr)
    /\ accepted_penalty' = p
    /\ best_layouts' =
          Truncate(ListInsertOrdered(best_layouts,
                      [layout |-> curr, penalty |-> p]), top_layouts)
    /\ inserted' = Append(inserted, p)

\* one iteration of the loop of simulate
SimIterate ==
    /\ pc = "sim_loop"
    /\ iter < MaxIter
    /\ \E times \in 1 .. num_swaps :
       \E curr \in Shuffled(accepted_layout[1], times) :
       \E p \in PenaltyChoices(curr) :
       \E accept \in AcceptTransition :
          /\ scored' = scored \cup { << curr, p >> }
          /\ tried' = Some([layout |-> curr, penalty |-> p, accept |-> accept])
          /\ IF accept
             THEN AcceptCandidate(curr, p)
             ELSE UNCHANGED << accepted_layout, accepted_penalty, best_layouts, inserted >>
    /\ iter' = iter + 1
    /\ UNCHANGED << argVars, pc, refVars, permVars, layoutVars, textVars >>

\* the simulation range is over: the list is iterated for the report
SimReport ==
    /\ pc = "sim_loop"
    /\ pc' = "sim_done"
    /\ UNCHANGED << argVars, best_layouts, simVars, refVars, scored, permVars, layoutVars, textVars >>

\* refine up to its loop: score the initial layout
RefStart ==
    /\ driver = "refine"
    /\ pc = "start"
    /\ \E p \in PenaltyChoices(init_layout[1]) :
          /\ scored' = scored \cup { << init_layout[1], p >> }
          /\ curr_penalty' = p
    /\ curr_layout' = init_layout
    /\ visited_layouts' = {}
    /\ pc' = "round"
    /\ UNCHANGED << argVars, best_layouts, simVars, rounds, round_scores, skipped,
                    offered, permVars, layoutVars, textVars >>

\* the head of the outer loop: an empty list and a new generator
RefNewRound ==
    /\ pc = "round"
    /\ best_layouts' = << >>
    /\ orig_layout' = curr_layout
    /\ swap_idx' = NewSwapIdx(num_swaps)
    /\ started' = FALSE
    /\ item' = None
    /\ yielded' = << >>
    /\ perm_pc' = "ready"
    /\ round_scores' = {}
    /\ skipped' = {}
    /\ pc' = "enum"
    /\ UNCHANGED << argVars, simVars, curr_layout, curr_penalty, visited_layouts,
                    rounds, scored, offered, layoutVars, textVars >>

\* visited_layouts.contains(&layout) (a variant that never finds it)
NeverVisited(l) == FALSE

AlreadyVisited(l) == l \in visited_layouts

\* one iteration of the for loop over the permutations: next, and its body
RefEnumStep ==
    /\ pc = "enum"
    /\ PermStep
    /\ IF perm_pc' = "panicked"
       THEN /\ pc' = "panic"
            /\ UNCHANGED << best_layouts, visited_layouts, round_scores, skipped, scored,
                            offered >>
       ELSE IF item' = None
       THEN /\ pc' = "pick"
            /\ UNCHANGED << best_layouts, visited_layouts, round_scores, skipped, scored,
                            offered >>
       ELSE /\ pc' = "enum"
            /\ IF AlreadyVisited(item'[1])
               THEN /\ skipped' = skipped \cup { item'[1] }
                    /\ UNCHANGED << best_layouts, visited_layouts, round_scores, scored,
                                    offered >>
               ELSE /\ visited_layouts' = visited_layouts \cup { item'[1] }
                    /\ \E p \in PenaltyChoices(item'[1]) :
                          /\ scored' = scored \cup { << item'[1], p >> }
                          /\ best_layouts' =
                                Truncate(ListInsertOrdered(best_layouts,
                                            [layout |-> item'[1], penalty |-> p]),
                                         top_layouts)
                          /\ round_scores' = round_scores \cup { p }
                    /\ offered' = Append(offered, [layout |-> item'[1], round |-> rounds])
                    /\ UNCHANGED skipped
    /\ UNCHANGED << argVars, simVars, curr_layout, curr_penalty, rounds,
                    layoutVars, textVars >>

\* the end of a round: pop the best entry; stop or go on from it
RefPick ==
    /\ pc = "pick"
    /\ rounds' = rounds + 1
    /\ IF best_layouts = << >>
       THEN \* best_layouts.pop_front().unwrap() panics
            /\ pc' = "panic"
            /\ UNCHANGED << best_layouts, curr_layout, curr_penalty >>
       ELSE /\ best_layouts' = Tail(best_layouts)
            /\ IF Le(curr_penalty, Head(best_layouts).penalty)
               THEN /\ pc' = "ref_done"
                    /\ UNCHANGED << curr_layout, curr_penalty >>
               ELSE /\ pc' = "round"
                    /\ curr_layout' = Some(Head(best_layouts).layout)
                    /\ curr_penalty' = Head(best_layouts).penalty
    /\ UNCHANGED << argVars, simVars, visited_layouts, round_scores, skipped, scored, offered,
                    permVars, layoutVars, textVars >>

\* both drivers before their first statement; nothing else is in use
SearchReset ==
    /\ pc = "start"
    /\ best_layouts = << >>
    /\ accepted_layout = None
    /\ accepted_penalty = 0
    /\ iter = 0
    /\ tried = None
    /\ inserted = << >>
    /\ curr_layout = None
    /\ curr_penalty = 0
    /\ visited_layouts = {}
    /\ rounds = 0
    /\ round_scores = {}
    /\ skipped = {}
    /\ offered = << >>
    /\ scored = {}
    /\ PermIdle
    /\ LayoutIdle
    /\ TextIdle

InitSearch ==
    /\ driver \in { "simulate", "refine" }
    /\ len \in 0 .. 1
    /\ top_layouts \in 0 .. MaxTop
    /\ num_swaps \in { d \in 1 .. MaxDepth : 2 * d - 1 <= LAYOUT_MASK_NUM_SWAPPABLE }
    /\ \/ init_layout = Some(OneKeyLayout)
       \/ /\ init_layout = Some(TwoKeysLayout)
          /\ driver = "refine"
          /\ top_layouts <= 1
          /\ num_swaps = 1
    /\ SearchReset

NextSearch ==
    \/ SimStart
    \/ SimIterate
    \/ SimReport
    \/ RefStart
    \/ RefNewRound
    \/ RefEnumStep
    \/ RefPick

SpecSearch == InitSearch /\ [][NextSearch]_vars

\* refine with swap depth 1 from a layout whose keys all differ
InitClimb ==
    /\ driver = "refine"
    /\ len \in 0 .. 1
    /\ top_layouts \in 0 .. 1
    /\ num_swaps = 1
    /\ init_layout = Some(AllKeysLayout)
    /\ SearchReset

NextClimb ==
    \/ RefStart
    \/ RefNewRound
    \/ RefEnumStep
    \/ RefPick

SpecClimb == InitClimb /\ [][NextClimb]_vars

(***************************************************************************)
(* list_insert_ordered on its own: entries are inserted one after another  *)
(* into a list that starts empty, as both drivers do.                      *)
(***************************************************************************)
\* the entries a driver can hand to list_insert_ordered when the list is
\* list: the penalties of one run are all NaN or none of them is
InsertEntries(list) ==
    { [layout |-> l, penalty |-> p] :
        l \in { OneKeyLayout, TwoKeysLayout, AllKeysLayout },
        p \in IF list = << >> THEN (0 .. MaxPenalty) \cup { NaN }
              ELSE IF list[1].penalty = NaN THEN { NaN }
              ELSE 0 .. MaxPenalty }

\* best_layouts = list_insert_ordered(best_layouts, entry)
InsertOrdered ==
    /\ driver = "none"
    /\ Len(best_layouts) <= MaxTop
    /\ \E e \in InsertEntries(best_layouts) :
          /\ best_layouts' = ListInsertOrdered(best_layouts, e)
          /\ tried' = Some([layout |-> e.layout, penalty |-> e.penalty, accept |-> TRUE])
    /\ UNCHANGED << argVars, pc, accepted_layout, accepted_penalty, iter, inserted,
                    refVars, scored, permVars, layoutVars, textVars >>

InitInsert ==
    /\ PermIdle
    /\ LayoutIdle
    /\ SearchIdle
    /\ TextIdle

NextInsert == InsertOrdered

SpecInsert == InitInsert /\ [][NextInsert]_vars

\* the drivers run to completion: a step that can be taken is taken
FairSpecSearch == SpecSearch /\ WF_vars(NextSearch)

(***************************************************************************)
(* The permutation generator: what one enumeration yields.                 *)
(***************************************************************************)
Depth == Cardinality(DOMAIN swap_idx) \div 2

\* next has returned None
Exhausted == started /\ item = None /\ perm_pc = "ready"

SwappablePositions == { SwapPos(e) : e \in 0 .. (LAYOUT_MASK_NUM_SWAPPABLE - 1) }

\* the unordered pairs of distinct swappable positions
SwappablePairs ==
    { pq \in SUBSET SwappablePositions : Cardinality(pq) = 2 }

\* a copy of layout l with the keys of positions p and q exchanged
Transposed(l, p, q) ==
    << [k \in Pos |-> IF k = p THEN Lower(l)[q] ELSE IF k = q THEN Lower(l)[p] ELSE Lower(l)[k]],
       [k \in Pos |-> IF k = p THEN Upper(l)[q] ELSE IF k = q THEN Upper(l)[p] ELSE Upper(l)[k]] >>

\* the unordered pair the n-th yielded layout swapped first
PairOf(n) == { yielded[n].swaps[1][1], yielded[n].swaps[1][2] }

\* C1: at depth 1 every yielded layout is a fresh copy of the base layout with
\* one pair of distinct swappable positions transposed in both layers, no
\* pair is used twice, and when next returns None exactly C(K,2) layouts have
\* been yielded, one for every unordered pair of swappable positions.
C1_DepthOneYieldsEveryPairOnce ==
    (orig_layout # None /\ Depth = 1) =>
        /\ \A n \in 1 .. Len(yielded) :
              /\ PairOf(n) \in SwappablePairs
              /\ yielded[n].layout =
                    Transposed(orig_layout[1], yielded[n].swaps[1][1], yielded[n].swaps[1][2])
        /\ \A m, n \in 1 .. Len(yielded) : m # n => PairOf(m) # PairOf(n)
        /\ Exhausted =>
              /\ 2 * Len(yielded) =
                    LAYOUT_MASK_NUM_SWAPPABLE * (LAYOUT_MASK_NUM_SWAPPABLE - 1)
              /\ { PairOf(n) : n \in 1 .. Len(yielded) } = SwappablePairs

\* a depth-1 enumeration of a layout holding the null sentinel at several
\* swappable positions has run to its end
C1_Witness ==
    /\ orig_layout # None
    /\ Depth = 1
    /\ Exhausted
    /\ Len(yielded) > 1
    /\ Cardinality({ p \in SwappablePositions : Lower(orig_layout[1])[p] = NUL }) > 1

\* the layouts yielded so far are pairwise unequal and none is the base layout
YieldsDistinct ==
    /\ \A m, n \in 1 .. Len(yielded) : m # n => yielded[m].layout # yielded[n].layout
    /\ \A n \in 1 .. Len(yielded) : yielded[n].layout # orig_layout[1]

\* no two swappable positions of l hold the same key (unshifted and shifted)
KeysDistinct(l) ==
    \A p, q \in SwappablePositions :
        p # q => << Lower(l)[p], Upper(l)[p] >> # << Lower(l)[q], Upper(l)[q] >>

PositionsOf(n) ==
    { yielded[n].swaps[k][1] : k \in 1 .. Len(yielded[n].swaps) }
        \cup { yielded[n].swaps[k][2] : k \in 1 .. Len(yielded[n].swaps) }

\* the choice of pairs the n-th yielded layout swapped
ChoiceOf(n) ==
    { { yielded[n].swaps[k][1], yielded[n].swaps[k][2] } : k \in 1 .. Len(yielded[n].swaps) }

\* every choice of d pairwise disjoint pairs of swappable positions
DisjointChoices(d) ==
    { c \in SUBSET SwappablePairs :
        /\ Cardinality(c) = d
        /\ \A x, y \in c : x # y => x \cap y = {} }

\* C3: at every depth D the generator yields exactly the layouts of D swaps
\* over 2D distinct swappable positions: each yielded layout swapped D
\* disjoint pairs, no choice of pairs is yielded twice, and when next returns
\* None every choice of D disjoint pairs has been yielded.
C3_EveryDisjointChoiceOnce ==
    orig_layout # None =>
        /\ \A n \in 1 .. Len(yielded) :
              /\ Cardinality(PositionsOf(n)) = 2 * Depth
              /\ ChoiceOf(n) \in DisjointChoices(Depth)
        /\ \A m, n \in 1 .. Len(yielded) : m # n => ChoiceOf(m) # ChoiceOf(n)
        /\ Exhausted => DisjointChoices(Depth) \subseteq { ChoiceOf(n) : n \in 1 .. Len(yielded) }

\* the part of C3 that fails even where each yielded layout swaps D disjoint
\* pairs: some pairings of a set of 2D positions are never yielded
C3_EveryPairingYielded ==
    (orig_layout # None /\ Exhausted) =>
        DisjointChoices(Depth) \subseteq { ChoiceOf(n) : n \in 1 .. Len(yielded) }

(***************************************************************************)
(* The position map and the swap.                                          *)
(***************************************************************************)
\* the characters of layout l, both layers
CharsOf(l) == { Lower(l)[p] : p \in Pos } \cup { Upper(l)[p] : p \in Pos }

\* the map has an entry for c that names a position holding c, with the
\* topology's properties of that position
EntryFits(m, l, c) ==
    /\ GetKeyPosition(m, c) # None
    /\ LET kp == GetKeyPosition(m, c)[1]
       IN  /\ kp.kc = c
           /\ kp.pos \in Pos
           /\ Lower(l)[kp.pos] = c \/ Upper(l)[kp.pos] = c
           /\ kp.finger = KEY_FINGERS[kp.pos + 1]
           /\ kp.hand = KEY_HANDS[kp.pos + 1]
           /\ kp.row = KEY_ROWS[kp.pos + 1]
           /\ kp.center = KEY_CENTER_COLUMN[kp.pos + 1]

\* C8 as stated: the position map has a fitting entry for every non-null
\* character of either layer.
C8_Original ==
    map # None =>
        \A c \in CharsOf(map_of[1]) : c # NUL => EntryFits(map[1], map_of[1], c)

\* C8 as amended: the position map has a fitting entry for every non-null
\* character below 128 of either layer (and none for a character from 128 on).
C8_EveryAsciiCharacterMapped ==
    map # None =>
        \A c \in CharsOf(map_of[1]) :
            /\ (c # NUL /\ c < ASCII_LIMIT) => EntryFits(map[1], map_of[1], c)
            /\ c >= ASCII_LIMIT => GetKeyPosition(map[1], c) = None

\* a map built from a shuffled layout that holds the same character in both
\* layers and a non-ASCII character
C8_Witness ==
    /\ map # None
    /\ trail # << >>
    /\ \E p \in Pos : Lower(map_of[1])[p] # NUL /\ Lower(map_of[1])[p] = Upper(map_of[1])[p]
    /\ \E c \in CharsOf(map_of[1]) : c >= ASCII_LIMIT
    /\ \E c \in CharsOf(map_of[1]) : c # NUL /\ c < ASCII_LIMIT

\* C9: the position map has no entry for the null sentinel, whatever the
\* layout holds.
C9_NoEntryForNul ==
    map # None => GetKeyPosition(map[1], NUL) = None

\* the layout after the n-th swap of the trail
After(n) == IF n = Len(trail) THEN layout[1] ELSE trail[n + 1].before

\* C10: swapping positions i and j and then i and j again leaves both layers
\* as they were before the first of the two swaps.
C10_SwapTwiceRestores ==
    \A n \in 2 .. Len(trail) :
        (trail[n].i = trail[n - 1].i /\ trail[n].j = trail[n - 1].j)
            => After(n) = trail[n - 1].before

\* the same two positions, holding different keys, were swapped twice in a row
C10_Witness ==
    /\ Len(trail) >= 2
    /\ LET n == Len(trail)
       IN  /\ trail[n].i = trail[n - 1].i
           /\ trail[n].j = trail[n - 1].j
           /\ trail[n].i # trail[n].j
           /\ trail[n].before # trail[n - 1].before

(***************************************************************************)
(* The best-layouts list and the searches.                                 *)
(***************************************************************************)
\* C4: in simulate and in refine the best-layouts list holds at most
\* top_layouts entries after each insertion step and when it is iterated
\* for the report.
C4_ListWithinCapacity ==
    pc \in { "sim_loop", "sim_done", "enum", "pick" } =>
        Len(best_layouts) <= top_layouts

\* C5: iterating the best-layouts list from the front never meets an entry
\* whose scaled penalty is lower than that of the entry before it.
C5_ListNonDecreasing ==
    \A k \in 1 .. (Len(best_layouts) - 1) :
        /\ Cmp(best_layouts[k + 1], best_layouts[k]) # "Less"
        /\ (best_layouts[k].penalty # NaN /\ best_layouts[k + 1].penalty # NaN)
              => best_layouts[k].penalty <= best_layouts[k + 1].penalty

\* a list of entries with different penalties, built by an insertion that
\* went in front of an existing entry
C5_Witness ==
    /\ Len(best_layouts) >= 2
    /\ best_layouts[1].penalty < best_layouts[2].penalty
    /\ best_layouts[2].layout = init_layout[1]
    /\ top_layouts >= 2

\* C6: refine terminates through its winner exit.
C6_RefineReachesWinner ==
    (driver = "refine") ~> (pc = "ref_done")

\* every candidate scored in this round has a strictly higher penalty than p
AllScoredHigher(p) ==
    /\ round_scores # {}
    /\ \A q \in round_scores : p # NaN /\ q # NaN /\ p < q

\* C7: refine with swap depth 1 on a layout whose every single-swap
\* neighbour has a strictly higher scaled penalty runs exactly one round and
\* reports the initial layout as the winner.
C7_LocalOptimumOneRound ==
    ( /\ driver = "refine"
      /\ num_swaps = 1
      /\ rounds = 1
      /\ pc \in { "round", "ref_done", "panic" }
      /\ KeysDistinct(init_layout[1])
      /\ \E e \in scored : e[1] = init_layout[1] /\ AllScoredHigher(e[2]) )
        => (pc = "ref_done" /\ curr_layout = init_layout)

\* with room in the list (top_layouts >= 1) such a run ends after one round
\* with the initial layout as the winner
LocalOptimumWinsWithRoom ==
    ( /\ driver = "refine"
      /\ num_swaps = 1
      /\ rounds = 1
      /\ top_layouts >= 1
      /\ pc \in { "round", "ref_done", "panic" }
      /\ KeysDistinct(init_layout[1])
      /\ \E e \in scored : e[1] = init_layout[1] /\ AllScoredHigher(e[2]) )
        => (pc = "ref_done" /\ curr_layout = init_layout)

(***************************************************************************)
(* Shuffles and generator steps move whole keys.                           *)
(***************************************************************************)
\* both layers of l have a slot for every position, and one permutation of
\* the positions maps both layers of b to the layers of l
MovedInLockstep(l, b) ==
    /\ DOMAIN Lower(l) = Pos
    /\ DOMAIN Upper(l) = Pos
    /\ \E sigma \in Permutations(Pos) :
          \A p \in Pos : /\ Lower(l)[p] = Lower(b)[sigma[p]]
                         /\ Upper(l)[p] = Upper(b)[sigma[p]]

\* C11: after any sequence of shuffles and generator steps from a layout,
\* both layers of the layout, and of every layout a generator yields, keep
\* one slot per position and are the original layers under one single
\* permutation of the positions.
C11_LayersMoveInLockstep ==
    /\ layout # None => MovedInLockstep(layout[1], base[1])
    /\ item # None => MovedInLockstep(item[1], base[1])

\* a generator on a layout that was changed before yields a layout whose
\* shifted and unshifted characters differ from place to place
C11_Witness ==
    /\ trail # << >>
    /\ layout # base
    /\ item # None
    /\ item[1] # layout[1]
    /\ item[1] # base[1]
    /\ \E p \in Pos : Lower(base[1])[p] # Upper(base[1])[p]

(***************************************************************************)
(* The quartad table.                                                      *)
(***************************************************************************)
\* character c has a key mapping
Mapped(c) == GetKeyPosition(map[1], c) # None

\* k is a contiguous piece of the corpus
PieceOfCorpus(k) ==
    \E n \in 1 .. Len(string) :
        n + Len(k) - 1 <= Len(string) /\ SubSeq(string, n, n + Len(k) - 1) = k

\* C12: every substring in the frequency table has 1 to 4 characters, all of
\* them with a key mapping, and is a contiguous piece of the corpus (so it
\* spans no unmapped character).
C12_WindowsHoldMappedCharacters ==
    \A k \in DOMAIN quartads :
        /\ Len(k) \in 1 .. 4
        /\ \A n \in 1 .. Len(k) : Mapped(k[n])
        /\ PieceOfCorpus(k)

\* the sum of the counts of the entries of table q whose key is in keys
RECURSIVE SumCounts(_, _)
SumCounts(q, keys) ==
    IF keys = {} THEN 0
    ELSE LET k == CHOOSE x \in keys : TRUE
         IN  q[k] + SumCounts(q, keys \ { k })

\* every character of the corpus has a key mapping
AllMapped == \A n \in 1 .. Len(string) : Mapped(string[n])

\* C13 as stated: for a corpus of mapped characters the counts of the entries
\* of length exactly 1 add up to the corpus length.
C13_Original ==
    (scan_pc = "done" /\ AllMapped) =>
        SumCounts(quartads, { k \in DOMAIN quartads : Len(k) = 1 }) = Len(string)

\* C13 as amended: for a corpus of mapped characters the counts of all
\* entries add up to the corpus length, every entry has 1 to 4 characters,
\* and the entries of length 1 count the first character only.
C13_AllCountsAddUpToLength ==
    (scan_pc = "done" /\ AllMapped) =>
        /\ SumCounts(quartads, DOMAIN quartads) = Len(string)
        /\ \A k \in DOMAIN quartads : Len(k) \in 1 .. 4
        /\ SumCounts(quartads, { k \in DOMAIN quartads : Len(k) = 1 })
              = IF Len(string) = 0 THEN 0 ELSE 1

\* a scanned corpus of more than four mapped characters with a window that
\* was counted more than once
C13_Witness ==
    /\ scan_pc = "done"
    /\ AllMapped
    /\ Len(string) > 4
    /\ \E k \in DOMAIN quartads : quartads[k] > 1

(***************************************************************************)
(* The penalty engine: detailed and plain scoring.                         *)
(***************************************************************************)
\* the sum of the totals of the buckets r .. 11 of a detailed result
RECURSIVE SumBuckets(_, _)
SumBuckets(result, r) ==
    IF r \notin DOMAIN result THEN 0
    ELSE result[r].total + SumBuckets(result, r + 1)

\* both modes have been run and have returned
BothReturned ==
    /\ DOMAIN results = BOOLEAN
    /\ ~results[TRUE].panicked
    /\ ~results[FALSE].panicked

\* C14: for the same layout and quartad table the detailed total is the plain
\* total, and it is the sum of the totals of all per-rule buckets of the
\* detailed result, the negative roll-in bucket included.
C14_DetailedTotalIsSumOfBuckets ==
    BothReturned =>
        /\ results[TRUE].total = results[FALSE].total
        /\ results[TRUE].total = SumBuckets(results[TRUE].result, 0)

\* both modes have scored a table of two substrings with a roll-in rebate and
\* with penalties in other buckets
C14_Witness ==
    /\ BothReturned
    /\ Cardinality(DOMAIN quartads) = 2
    /\ results[TRUE].result[7].total < 0
    /\ results[TRUE].result[3].total > 0
    /\ results[TRUE].result[4].total > 0
    /\ results[TRUE].total > 0

(***************************************************************************)
(* Layout::from_string.                                                    *)
(***************************************************************************)
\* the text supplies the character at index idx of position p: p is one of
\* the positions the text format sets and idx lies within the text
Supplied(p, idx) == p < FILE_POSITIONS /\ idx < Len(string)

\* C15: from_string returns a layout for a text of any length, the empty one
\* included; a position whose character the text does not supply holds the
\* null sentinel in both layers, and a position it supplies holds the
\* character at its file index in the unshifted layer and the character at
\* its file index + SHIFT_OFFSET in the shifted layer.
C15_FromStringFillsWithNul ==
    layout # None =>
        /\ DOMAIN Lower(layout[1]) = Pos
        /\ DOMAIN Upper(layout[1]) = Pos
        /\ \A p \in Pos :
              LET idx == LAYOUT_FILE_IDXS[p]
              IN  /\ ~Supplied(p, idx) =>
                        Lower(layout[1])[p] = NUL /\ Upper(layout[1])[p] = NUL
                  /\ Supplied(p, idx) => Lower(layout[1])[p] = string[idx + 1]
                  /\ Supplied(p, idx + SHIFT_OFFSET) =>
                        Upper(layout[1])[p] = string[idx + SHIFT_OFFSET + 1]
                  /\ ~Supplied(p, idx + SHIFT_OFFSET) => Upper(layout[1])[p] = NUL

\* a text that supplies the unshifted character of every position read, and
\* the shifted character of some of them
C15_Witness ==
    /\ layout # None
    /\ \E p \in Pos : Upper(layout[1])[p] # NUL
    /\ \E p \in Pos :
          /\ p < FILE_POSITIONS
          /\ Lower(layout[1])[p] # NUL
          /\ Upper(layout[1])[p] = NUL
    /\ \E p, q \in Pos : Lower(layout[1])[p] # NUL /\ Lower(layout[1])[p] # Upper(layout[1])[q]
                         /\ Upper(layout[1])[q] # NUL

(***************************************************************************)
(* Layout::shuffle.                                                        *)
(***************************************************************************)
\* the ordered pairs of distinct swappable positions
OrderedSwappablePairs ==
    { ij \in SwappablePositions \X SwappablePositions : ij[1] # ij[2] }

\* C16: a call shuffle(count) does exactly count swaps; each swap is of two
\* distinct swappable positions (never the excluded one) and exchanges their
\* keys in both layers; every ordered pair of distinct swappable positions
\* can be picked.
C16_ShuffleSwapsSwappablePairs ==
    /\ \A c \in 1 .. Len(shuffle_calls) : shuffle_calls[c].swaps = shuffle_calls[c].times
    /\ \A n \in 1 .. Len(trail) :
          /\ << trail[n].i, trail[n].j >> \in OrderedSwappablePairs
          /\ trail[n].i # MaskedPos /\ trail[n].j # MaskedPos
          /\ After(n) = Transposed(trail[n].before, trail[n].i, trail[n].j)
    /\ OrderedSwappablePairs \subseteq ShufflePositions

\* a call of shuffle with more than one swap on a layout with different keys,
\* the second swap picking the pair of the first in the other order
C16_Witness ==
    /\ Len(shuffle_calls) = 1
    /\ shuffle_calls[1].times > 1
    /\ Len(trail) > 1
    /\ trail[1].i = trail[2].j
    /\ trail[1].j = trail[2].i
    /\ trail[1].before # trail[2].before

(***************************************************************************)
(* simulate: what an iteration changes.                                    *)
(***************************************************************************)
\* list with entry e put in as its k-th entry
InsertedAt(list, k, e) ==
    SubSeq(list, 1, k - 1) \o << e >> \o SubSeq(list, k, Len(list))

\* an iteration of simulate has just run
Iterated == pc = "sim_loop" /\ iter' = iter + 1

\* C17: an iteration of simulate whose candidate accept_transition rejects
\* leaves the accepted layout, the accepted penalty and the best-layouts list
\* as they were; one whose candidate it accepts makes the candidate the
\* accepted layout, its scaled penalty the accepted penalty, and puts exactly
\* that candidate with that penalty into the list (which is then cut to its
\* capacity); the accepted penalty is always the score of the accepted layout.
C17_IterationAcceptsOrLeaves ==
    /\ [][ Iterated =>
             IF tried'[1].accept
             THEN /\ accepted_layout' = Some(tried'[1].layout)
                  /\ accepted_penalty' = tried'[1].penalty
                  /\ \E k \in 1 .. (Len(best_layouts) + 1) :
                        best_layouts' =
                           Truncate(InsertedAt(best_layouts, k,
                                       [layout |-> tried'[1].layout,
                                        penalty |-> tried'[1].penalty]), top_layouts)
             ELSE UNCHANGED << accepted_layout, accepted_penalty, best_layouts >> ]_vars
    /\ [](accepted_layout # None =>
             << accepted_layout[1], accepted_penalty >> \in scored)

\* a candidate that differs from the accepted layout and scores differently
\* was rejected after another one had been accepted
C17_Witness ==
    /\ pc = "sim_loop"
    /\ tried # None
    /\ ~tried[1].accept
    /\ tried[1].layout # accepted_layout[1]
    /\ tried[1].penalty # accepted_penalty
    /\ accepted_layout # init_layout
    /\ Len(best_layouts) >= 2

(***************************************************************************)
(* The permutation generator: exhaustion.                                  *)
(***************************************************************************)
\* a call of next made after next has returned None
CallWhenExhausted == Exhausted /\ PermStep

\* C18: the generator is finite and non-restartable: for every depth next
\* returns None after finitely many calls, and a call made after it has
\* returned None returns None again and leaves swap_idx as it was.
C18_GeneratorEndsAndStaysEnded ==
    /\ <>Exhausted
    /\ [][CallWhenExhausted => (item' = None /\ swap_idx' = swap_idx)]_vars


(***************************************************************************)
(* refine: the winner and its neighbourhood.                               *)
(***************************************************************************)
\* the scaled penalties calculate_penalty returned for layout l in this run
ScoresOf(l) == { e[2] : e \in { x \in scored : x[1] = l } }

\* refine has left its loop through the winner branch
WinnerExit == driver = "refine" /\ pc = "ref_done"

\* C19: when refine exits through its winner branch, the last round's
\* generator ran from the winner to exhaustion, and no layout it yielded,
\* whether scored in that round or skipped as already visited, has a scaled
\* penalty strictly lower than the winner's.
C19_WinnerIsLocalOptimum ==
    WinnerExit =>
        /\ orig_layout = curr_layout
        /\ Exhausted
        /\ ScoresOf(curr_layout[1]) = { curr_penalty }
        /\ \A n \in 1 .. Len(yielded) :
              /\ ScoresOf(yielded[n].layout) # {}
              /\ \A p \in ScoresOf(yielded[n].layout) : ~Lt(p, curr_penalty)

\* a winner found in a later round, with neighbours of higher penalty both
\* among those scored in the last round and among those it skipped
C19_Witness ==
    /\ WinnerExit
    /\ rounds >= 2
    /\ \E l \in skipped : \E p \in ScoresOf(l) : Lt(curr_penalty, p)
    /\ \E n \in 1 .. Len(yielded) :
          /\ yielded[n].layout \notin skipped
          /\ \E p \in ScoresOf(yielded[n].layout) : Lt(curr_penalty, p)


(***************************************************************************)
(* list_insert_ordered: where an entry of equal penalty goes.              *)
(***************************************************************************)
\* the entry the last call of list_insert_ordered was given
NewEntry == [layout |-> tried[1].layout, penalty |-> tried[1].penalty]

\* the first position of list whose entry satisfies Stop, or one past its end
FirstPosition(list, Stop(_)) ==
    LET stops == { k \in 1 .. Len(list) : Stop(list[k]) }
    IN  IF stops = {} THEN Len(list) + 1
        ELSE CHOOSE i \in stops : \A j \in stops : i <= j

\* the first position whose penalty is not less than p
FirstNotLess(list, p) ==
    LET Stop(e) == ~Lt(e.penalty, p) IN FirstPosition(list, Stop)

\* the first position whose penalty is greater than p
FirstGreater(list, p) ==
    LET Stop(e) == Lt(p, e.penalty) IN FirstPosition(list, Stop)

\* C20 as stated: list_insert_ordered puts the new entry at the first
\* position whose penalty is not less than the new entry's, before all
\* entries of equal penalty.
C20_Original ==
    [][ InsertOrdered =>
          best_layouts' =
             InsertedAt(best_layouts, FirstNotLess(best_layouts, NewEntry'.penalty),
                        NewEntry') ]_vars

\* C20, amended: list_insert_ordered puts the new entry immediately before
\* the first entry whose penalty is greater than the new entry's, at the end
\* when there is none: after all entries of equal penalty.
C20_NewEntryAfterEqualEntries ==
    [][ InsertOrdered =>
          /\ best_layouts' =
                InsertedAt(best_layouts, FirstGreater(best_layouts, NewEntry'.penalty),
                           NewEntry')
          /\ \A k \in 1 .. Len(best_layouts) :
                best_layouts[k].penalty = NewEntry'.penalty
                   => best_layouts'[k] = best_layouts[k] ]_vars

\* an entry went in behind two entries of its own penalty and in front of
\* none: the list holds three entries of one penalty, the newest last
C20_Witness ==
    /\ driver = "none"
    /\ Len(best_layouts) = 3
    /\ \A k \in 1 .. 3 : best_layouts[k].penalty = NewEntry.penalty
    /\ best_layouts[3] = NewEntry
    /\ best_layouts[1] # NewEntry
    /\ best_layouts[2] # NewEntry


(***************************************************************************)
(* refine: what a round's end does with the current layout.                *)
(***************************************************************************)
\* the end of a round takes the best candidate as the current layout
Adopts == pc = "pick" /\ pc' = "round"

\* the end of a round leaves the loop through the winner branch
Stops == pc = "pick" /\ pc' = "ref_done"

\* C21: refine adopts a round's best candidate only when its scaled penalty
\* is strictly lower than the current penalty and stops otherwise, so the
\* current penalty strictly decreases from round to round and the winner's
\* penalty is never higher than the initial layout's.
C21_AdoptsOnlyStrictlyLower ==
    /\ [][ (pc = "pick" /\ best_layouts # << >>) =>
             IF Lt(Head(best_layouts).penalty, curr_penalty)
             THEN /\ Adopts
                  /\ curr_layout' = Some(Head(best_layouts).layout)
                  /\ Lt(curr_penalty', curr_penalty)
             ELSE /\ Stops
                  /\ UNCHANGED << curr_layout, curr_penalty >> ]_vars
    /\ [](WinnerExit =>
             \A p \in ScoresOf(init_layout[1]) : ~Lt(p, curr_penalty))


(***************************************************************************)
(* refine: the visited set.                                                *)
(***************************************************************************)
\* the layouts refine has scored in a round and handed to the round's list
OfferedLayouts == { offered[k].layout : k \in 1 .. Len(offered) }

\* C22: the visited set of refine only grows, also from one round to the
\* next; no layout content is scored and put into a round's list twice in a
\* run; and a layout that is enumerated again, in the same round or in a
\* later one, is skipped: it is not scored and the list stays as it is.
C22_VisitedLayoutsOfferedOnce ==
    /\ [][visited_layouts \subseteq visited_layouts']_vars
    /\ [](\A i, j \in 1 .. Len(offered) :
             i # j => offered[i].layout # offered[j].layout)
    /\ [](OfferedLayouts \subseteq visited_layouts)
    /\ [][ (pc = "enum" /\ pc' = "enum" /\ item'[1] \in OfferedLayouts) =>
             /\ offered' = offered
             /\ best_layouts' = best_layouts
             /\ item'[1] \in skipped' ]_vars

\* a round has skipped a layout that an earlier round had scored
C22_Witness ==
    /\ driver = "refine"
    /\ rounds >= 1
    /\ \E k \in 1 .. Len(offered) :
          /\ offered[k].round < rounds
          /\ offered[k].layout \in skipped
    /\ \E k \in 1 .. Len(offered) : offered[k].round = rounds


(***************************************************************************)
(* calculate_penalty: substrings that hold a character without a key.      *)
(***************************************************************************)
\* some character of substring str has no entry in position_map
HasUnmapped(str, position_map) ==
    \E i \in 1 .. Len(str) : GetKeyPosition(position_map, str[i]) = None

\* table q without its entry for substring k
WithoutEntry(q, k) == [x \in DOMAIN q \ { k } |-> q[x]]

\* C23: a substring of the table in which any character, the newest or an
\* older one, has no entry in the layout's position map adds nothing to the
\* total and nothing to any rule's bucket: the result is that of the table
\* without the substring.
C23_UnmappedCharacterAddsNothing ==
    \A d \in DOMAIN results : \A k \in DOMAIN quartads :
        (~results[d].panicked /\ HasUnmapped(k, GetPositionMap(layout[1])))
            => LET without == calculate_penalty(WithoutEntry(quartads, k), len, layout[1], d)
               IN  /\ results[d].total = without.total
                   /\ results[d].result = without.result


(***************************************************************************)
(* prepare_quartad_list on a corpus of single-byte characters.             *)
(***************************************************************************)
\* every character of the corpus is encoded in one byte
SingleByteCorpus == \A n \in 1 .. Len(string) : Utf8Len(string[n]) = 1

\* the length of the run of consecutive mapped characters that ends at the
\* n-th character of the corpus
RECURSIVE RunLength(_)
RunLength(n) ==
    IF n = 0 THEN 0
    ELSE IF ~Mapped(string[n]) THEN 0
    ELSE 1 + RunLength(n - 1)

\* the last min(4, r) characters ending at the n-th character
LastOfRun(n) ==
    LET r == RunLength(n)
        w == IF r < 4 THEN r ELSE 4
    IN  SubSeq(string, n - w + 1, n)

\* the mapped characters among the first i characters of the corpus
MappedUpTo(i) == { n \in 1 .. i : Mapped(string[n]) }

\* one increment for every mapped character among the first i, of the
\* substring LastOfRun
RunTable(i) ==
    [k \in { LastOfRun(n) : n \in MappedUpTo(i) } |->
        Cardinality({ n \in MappedUpTo(i) : LastOfRun(n) = k })]

\* C24: on a corpus of single-byte characters prepare_quartad_list does not
\* fail and increments the table once for every mapped character and never
\* for an unmapped one; the substring incremented is the last min(4, r)
\* characters ending at the character, r the length of the run of mapped
\* characters ending there; the counts add up to the number of mapped
\* characters.
C24_OneIncrementPerMappedCharacter ==
    SingleByteCorpus =>
        /\ scan_pc # "panic"
        /\ DOMAIN quartads = DOMAIN RunTable(scan_i)
        /\ \A k \in DOMAIN quartads : quartads[k] = RunTable(scan_i)[k]
        /\ SumCounts(quartads, DOMAIN quartads) = Cardinality(MappedUpTo(scan_i))

\* a scanned corpus with an unmapped character between mapped ones, and a
\* substring counted on both sides of it
C24_Witness ==
    /\ scan_pc = "done"
    /\ SingleByteCorpus
    /\ Len(string) = 5
    /\ Mapped(string[1])
    /\ ~Mapped(string[2])
    /\ \A n \in 3 .. 5 : Mapped(string[n])
    /\ \E k \in DOMAIN quartads : Len(k) = 1 /\ quartads[k] = 2
    /\ \E k \in DOMAIN quartads : Len(k) = 3


(***************************************************************************)
(* refine: the list at the end of a round.                                 *)
(***************************************************************************)
\* the for loop of a round is over and its list is about to be popped
RoundOver == driver = "refine" /\ pc = "pick"

\* C25: at the end of every round of refine the round's list is not empty,
\* so best_layouts.pop_front().unwrap() does not fail, whatever top_layouts
\* and the swap depth are and also when every enumerated layout had been
\* visited before.
C25_RoundListNonEmpty ==
    /\ RoundOver => best_layouts # << >>
    /\ driver = "refine" => pc # "panic"


(***************************************************************************)
(* calculate_same_finger_penalty on the fixed topology.  The function is   *)
(* applied to every pair of key presses that penalize hands to it for the  *)
(* index fingers: two distinct positions of KEY_FINGERS and KEY_HANDS with *)
(* the Index finger of one hand.                                           *)
(***************************************************************************)
\* the positions of the topology tables
TopologyPositions == 0 .. Len(KEY_FINGERS) - 1

\* penalize's guard `curr.hand == old1.hand`, `curr.finger == old1.finger &&
\* curr.pos != old1.pos`, for the index fingers
IndexFingerPairs ==
    { pair \in TopologyPositions \X TopologyPositions :
        /\ pair[1] # pair[2]
        /\ KEY_FINGERS[pair[1] + 1] = "Index"
        /\ KEY_FINGERS[pair[2] + 1] = "Index"
        /\ KEY_HANDS[pair[1] + 1] = KEY_HANDS[pair[2] + 1] }

\* two key presses that penalize is about to hand to the function; the
\* function does not read their characters, the code point pos + 1 stands
\* for the character of the key at pos
InitFinger ==
    /\ \E pair \in IndexFingerPairs :
          presses = << KeyPressAt(pair[1] + 1, pair[1]), KeyPressAt(pair[2] + 1, pair[2]) >>
    /\ same_finger = << >>
    /\ string = << >>
    /\ scan_i = 0
    /\ range = [start |-> 0, end |-> 0]
    /\ quartads = << >>
    /\ scan_pc = "idle"
    /\ results = << >>
    /\ PermIdle
    /\ LayoutIdle
    /\ SearchIdle

\* let penalty = calculate_same_finger_penalty(curr, old1)
CalculateSameFinger ==
    /\ presses # << >>
    /\ same_finger = << >>
    /\ same_finger' = << calculate_same_finger_penalty(presses[1], presses[2]) >>
    /\ UNCHANGED << string, scan_i, range, quartads, scan_pc, results, presses,
                    permVars, layoutVars, searchVars >>

NextFinger == CalculateSameFinger

SpecFinger == InitFinger /\ [][NextFinger]_vars

\* C26: for every two distinct positions that the topology gives to the Index
\* finger of the same hand, calculate_same_finger_penalty returns a cost of
\* its case list: it does not reach the assertion "All index finger pairs
\* must be covered by now".
C26_IndexFingerPairsCovered ==
    same_finger # << >> => same_finger[1] # None


(***************************************************************************)
(* The candidates of a search and the quartad table.  The table is         *)
(* extracted once, with the position map of the base layout; the searches  *)
(* then score layouts made from the base layout by shuffle and by the      *)
(* permutation generator.                                                  *)
(***************************************************************************)
\* a corpus of at most MaxCorpus characters and the position map of a layout
InitCandidates ==
    /\ \E l \in { OneKeyLayout, AllKeysLayout } :
          /\ layout = Some(l)
          /\ base = Some(l)
          /\ map = Some(GetPositionMap(l))
          /\ map_of = Some(l)
    /\ trail = << >>
    /\ shuffle_calls = << >>
    /\ string \in TextsUpTo(MaxCorpus)
    /\ scan_i = 0
    /\ range = [start |-> 0, end |-> 0]
    /\ quartads = << >>
    /\ scan_pc = "scan"
    /\ results = << >>
    /\ presses = << >>
    /\ same_finger = << >>
    /\ PermIdle
    /\ SearchIdle

\* simulate: curr_layout.shuffle(..), one swap of the loop of shuffle, once
\* the table is there
ShuffleCandidate ==
    /\ scan_pc = "done"
    /\ orig_layout = None
    /\ Len(trail) < MaxSwaps
    /\ \E ij \in ShufflePositions :
          /\ layout' = Some(SwapBoth(layout[1], ij[1], ij[2]))
          /\ trail' = Append(trail, [i |-> ij[1], j |-> ij[2], before |-> layout[1]])
    /\ UNCHANGED << base, shuffle_calls, map, map_of, permVars, searchVars, textVars >>

\* refine: LayoutPermutations::new(&curr_layout, num_swaps), once the table
\* is there
PermuteCandidate ==
    /\ scan_pc = "done"
    /\ StartPermutations

NextCandidates ==
    \/ ScanChar
    \/ ScanReturn
    \/ ShuffleCandidate
    \/ PermuteCandidate
    \/ NextPermutation
    \/ TakeItem

SpecCandidates == InitCandidates /\ [][NextCandidates]_vars

\* the characters with an entry in the position map of layout l
MappedCharacters(l) ==
    { c \in 0 .. (ASCII_LIMIT - 1) : GetKeyPosition(GetPositionMap(l), c) # None }

\* the layouts made from the base layout: the shuffled layout and the
\* layout the generator has yielded
Candidates == { layout[1] } \cup (IF item = None THEN {} ELSE { item[1] })

\* C27: every layout made from a base layout by shuffle or by the
\* permutation generator maps exactly the characters the base layout maps,
\* and every character of every substring of the table extracted with the
\* base layout's map is mapped in every such layout, so penalty_for_quartad
\* does not take its early return of 0.0 when a search scores it.
C27_CandidatesMapEveryTableCharacter ==
    \A cand \in Candidates :
        /\ MappedCharacters(cand) = MappedCharacters(base[1])
        /\ scan_pc = "done" =>
              \A k \in DOMAIN quartads : ~HasUnmapped(k, GetPositionMap(cand))


(***************************************************************************)
(* simulate: what the best-layouts list keeps.                             *)
(***************************************************************************)
\* the loop of simulate is running or over, with room for an entry
SimulateKeeps ==
    /\ driver = "simulate"
    /\ top_layouts >= 1
    /\ pc \in { "sim_loop", "sim_done" }

\* the penalties of the entries of a list, in the order of the list
PenaltiesOf(list) == [k \in 1 .. Len(list) |-> list[k].penalty]

\* sequence s without its element at index i
WithoutIndex(s, i) == SubSeq(s, 1, i - 1) \o SubSeq(s, i + 1, Len(s))

\* the m lowest values of sequence s, in ascending order
RECURSIVE Lowest(_, _)
Lowest(s, m) ==
    IF m = 0 \/ s = << >> THEN << >>
    ELSE LET i == CHOOSE x \in DOMAIN s : \A y \in DOMAIN s : s[x] <= s[y]
         IN  << s[i] >> \o Lowest(WithoutIndex(s, i), m - 1)

\* C28: in simulate with top_layouts >= 1, after every iteration the first
\* entry of the list has the lowest penalty among the initial layout and the
\* candidates accepted so far, that penalty is not greater than the accepted
\* penalty, and the list holds the min(top_layouts, n) lowest penalties of
\* the n entries inserted.
C28_ListKeepsLowestPenalties ==
    SimulateKeeps =>
        /\ best_layouts # << >>
        /\ \E n \in 1 .. Len(inserted) : best_layouts[1].penalty = inserted[n]
        /\ \A n \in 1 .. Len(inserted) : ~Lt(inserted[n], best_layouts[1].penalty)
        /\ ~Lt(accepted_penalty, best_layouts[1].penalty)
        /\ PenaltiesOf(best_layouts) =
              Lowest(inserted, IF top_layouts < Len(inserted)
                               THEN top_layouts ELSE Len(inserted))

\* a worse candidate was accepted after the best one and an entry was
\* evicted, the best one is still first
C28_Witness ==
    /\ SimulateKeeps
    /\ Len(inserted) > top_layouts
    /\ Len(inserted) = 3
    /\ inserted[2] < inserted[1]
    /\ inserted[2] < inserted[3]
    /\ best_layouts[1].penalty = inserted[2]
    /\ accepted_penalty = inserted[3]

=========================================================================
